---- MODULE Spec2Model ----
(***************************************************************************)
(* The Android socket bridge of bluetooth-rust                             *)
(* (src/bluetooth-rust/src/android/socket.rs): one BluetoothSocket, the    *)
(* application thread that calls connect / read / write / flush / close on *)
(* it, the background reader thread spawned by connect(), and the foreign  *)
(* (Java) socket with its two streams as the environment.                  *)
(***************************************************************************)
EXTENDS Integers, Sequences, FiniteSets, TLC

(***************************************************************************)
(* Bounds of the model.                                                    *)
(***************************************************************************)
\* BluetoothSocket::ARRAY_SIZE is 32 * 1024 in the source (socket.rs:43); the
\* model scales it down so that payloads around the capacity can be enumerated.
ARRAY_SIZE == 2
\* Number of bytes the peer sends on the foreign input stream.
MaxBytes == 3
\* Largest instant of the wall clock, in units of 100 ms.
MaxTime == 2
\* Largest read timeout that can be configured, in units of 100 ms.
MaxTimeout == MaxTime - 1
\* Largest destination buffer handed to read().
MaxBuf == MaxBytes - 1
\* Number of service UUIDs requested of one device.
NumUuids == 3
\* Largest number of fragments in the class name of a caught exception.
MaxClassLen == 2
\* Largest number of responses the host sends to one passkey request (below
\* the capacity of the response channel, 5).
MaxResponses == 3

(***************************************************************************)
(* Bytes and their conversions.                                            *)
(***************************************************************************)
\* The i-th byte the peer sends: distinct values on both sides of 127, so
\* that order, duplication and the u8 <-> i8 casts are all observable.
PeerByte(i) == 126 + i

\* `buf.as_ptr() as *const i8` / byte_array_from_slice: a u8 seen as a jbyte.
ToI8(b) == IF b >= 128 THEN b - 256 ELSE b

\* A jbyte seen as a u8 again (`vec_read.as_mut_ptr() as *mut i8`, and the
\* octet a Java stream puts on the wire for a jbyte).
ToU8(x) == x % 256

MapSeq(s, Op(_)) == [i \in 1..Len(s) |-> Op(s[i])]

Min(a, b) == IF a <= b THEN a ELSE b

\* A payload of n distinct bytes, base + 1 .. base + n.
Pattern(base, n) == [i \in 1..n |-> base + i]

(***************************************************************************)
(* Foreign exceptions and their translation.                               *)
(***************************************************************************)
\* A class name or a message is a sequence of fragments; `contains` is
\* substring search on fragment boundaries.
Contains(text, frag) == \E i \in 1..Len(text) : text[i] = frag

SecurityEx == [java |-> TRUE, cls |-> <<"java.lang.", "SecurityException">>,
               msg |-> <<"need BLUETOOTH_CONNECT">>]
IllegalArgEx == [java |-> TRUE, cls |-> <<"java.lang.", "IllegalArgumentException">>,
                 msg |-> <<"bad argument">>]
IoClosedEx == [java |-> TRUE, cls |-> <<"java.io.", "IOException">>,
               msg |-> <<"bt socket ", "Closed", ", read return: -1">>]
IoOtherEx == [java |-> TRUE, cls |-> <<"java.io.", "IOException">>,
              msg |-> <<"Broken pipe">>]
\* A jni::errors::Error other than JavaException.
JniOtherErr == [java |-> FALSE, cls |-> <<>>, msg |-> <<"JNI call failed">>]

\* What a failing call on a foreign stream may raise.
ForeignErrors == {SecurityEx, IllegalArgEx, IoClosedEx, IoOtherEx, JniOtherErr}
\* What a failing call on the foreign socket itself may raise.
SocketErrors == {IoOtherEx}
\* What a failing JNI array or method-id primitive may raise.
JniErrors == {JniOtherErr}

\* The results of the operations: Ok(val) or Err(kind) with its text.
Ok(n) == [kind |-> "Ok", val |-> n, text |-> <<>>]
Err(k, t) == [kind |-> k, val |-> 0, text |-> t]
NoResult == [kind |-> "none", val |-> 0, text |-> <<>>]

\* A bug jerr could have: the two class-name tests in the other order.
jerr_tests_swapped(e) ==
    IF e.java
    THEN IF Contains(e.cls, "IllegalArgumentException")
         THEN Err("InvalidInput", e.msg)
         ELSE IF Contains(e.cls, "SecurityException")
              THEN Err("PermissionDenied", e.msg)
              ELSE Err("Other", e.cls \o <<": ">> \o e.msg)
    ELSE Err("Other", e.msg)

jerr(e) ==
    IF e.java
    THEN IF Contains(e.cls, "SecurityException")
         THEN Err("PermissionDenied", e.msg)
         ELSE IF Contains(e.cls, "IllegalArgumentException")
              THEN Err("InvalidInput", e.msg)
              ELSE Err("Other", e.cls \o <<": ">> \o e.msg)
    ELSE Err("Other", e.msg)

\* String::to_lowercase on the fragments of a message.
ToLower(frag) == IF frag \in {"Closed", "CLOSED"} THEN "closed" ELSE frag
to_lowercase(text) == MapSeq(text, ToLower)

(***************************************************************************)
(* State.                                                                  *)
(***************************************************************************)
VARIABLES
    \* the foreign socket and its streams, and the wall clock
    sock,          \* "init" | "connected" | "disconnected" | "closed"
    nDelivered,    \* bytes the foreign input stream has handed out so far
    now,           \* SystemTime::now(), in units of 100 ms
    \* fields of BluetoothSocket
    buf_read,      \* Arc<Mutex<VecDeque<u8>>>: the shared queue
    thread_read,   \* Option<JoinHandle>: "None" | "Some"
    read_callback, \* Arc<Mutex<Option<ReadCallback>>>: "None" | a callback
    read_timeout,  \* Duration, in units of 100 ms
    array_write,   \* the foreign scratch array (jbytes)
    javaLock,      \* holder of the shared Arc<Mutex<Java>>: "free" | "app"
    \* the application thread: the operation it is in, and its locals
    pc, op, buf, buflen, res, calls, raised,
    t_call, t_timeout, wake, wex,
    \* what the caller and the peer have observed
    outCalls,      \* foreign write invocations of the current operation
    got,           \* bytes returned by the Ok results of read(), concatenated
    \* the reader thread (BluetoothSocket::read_loop)
    rpc, read_size, vec_read, rres,
    read_len,      \* the result of the foreign read of this turn of the loop
    rex,           \* the exception of the foreign read being handled
    callback, val, \* locals of read_callback: the callback taken out, its argument
    \* the Java handles: for each, the thread its attachment belongs to
    attached,
    \* the exception translator (jerr) at work on one caught error
    tr,
    \* the device: its cache of bridges, and the last request with its result
    rfcomm_sockets, dres,
    \* the desktop pairing agent (linux.rs, build_agent): one passkey handler
    agent,         \* the handler running: "none" | "display_passkey" | "request_confirmation"
    apc,           \* its position: "idle" | "recv" (in the loop) | "returned"
    chan_rx,       \* chan.1: the responses buffered in the response channel
    chan_tx,       \* chan.0, the response sender: "none" | "host" | "dropped"
    answered,      \* the responses the host has sent during this call
    to_host,       \* the messages the handler has handed to s3.send
    asdf,          \* the last outcome of timeout(5 s, recv): "none" | "Some" | "None" | "Elapsed"
    ares           \* the handler's result: "none" | "Ok" | "Rejected" | "Canceled"

sockVars == <<sock, nDelivered>>
fieldVars == <<thread_read, read_callback, read_timeout, array_write>>
localVars == <<t_call, t_timeout, wake, wex>>
opVars == <<op, buf, buflen>>
appVars == <<javaLock, pc, op, buf, buflen, res, calls, raised, t_call, t_timeout, wake, wex,
            outCalls, got>>
cbVars == <<callback, val>>
readerVars == <<rpc, read_size, vec_read, rres, read_len, rex, callback, val>>
deviceVars == <<rfcomm_sockets, dres>>
agentVars == <<agent, apc, chan_rx, chan_tx, answered, to_host, asdf, ares>>
outerVars == <<attached, tr, rfcomm_sockets, dres, agentVars>>
vars == <<sock, nDelivered, now, buf_read, thread_read, read_callback, read_timeout,
          array_write, javaLock, pc, op, buf, buflen, res, calls, raised,
          t_call, t_timeout, wake, wex, outCalls, got, rpc, read_size, vec_read, rres,
          read_len, rex, callback, val,
          attached, tr, rfcomm_sockets, dres,
          agent, apc, chan_rx, chan_tx, answered, to_host, asdf, ares>>

\* A bug Java_make could have: the attachment of the thread that spawns the
\* caller is taken over instead of attaching the calling thread.
Java_make_of_spawner(thread) == "app"

\* Java::make: the handle attaches the thread that calls it
\* (`java.attach_current_thread()`), and the attachment is that thread's.
Java_make(thread) == thread

\* The translator at rest.
NoTranslation == [stage |-> "idle", err |-> JniOtherErr, pending |-> FALSE,
                  described |-> FALSE, out |-> NoResult]

\* The service UUIDs the application asks the device for.
Uuids == 1..NumUuids

\* No bridge: an absent key of the cache, or a request that failed.
NoBridge == [uuid |-> 0, is_secure |-> FALSE, kind |-> "none", obj |-> 0]

\* No request made of the device yet.
NoRequest == [kind |-> "none", uuid |-> 0, is_secure |-> FALSE, ok |-> FALSE,
              bridge |-> NoBridge, text |-> <<>>]

\* Option<usize>, the argument of a callback: None, and Some(n).
None == [some |-> FALSE, n |-> 0]
Some(n) == [some |-> TRUE, n |-> n]

\* The callbacks an application may register.
Callbacks == {"cb1", "cb2"}

\* `read_len` before the foreign read has returned, and once it returned n.
NoLength == [known |-> FALSE, len |-> 0]
Length(n) == [known |-> TRUE, len |-> n]

\* The lengths `len > 0` rejects: zero, and the end-of-stream mark.
NonPositive == {-1, 0}

\* No exception of the foreign read is being handled.
NoException == [java |-> FALSE, cls |-> <<>>, msg |-> <<>>]

\* The state after BluetoothSocket::build on a socket the device adapter has
\* just derived: not connected, empty queue, no thread, no callback, timeout 0,
\* a zeroed scratch array of ARRAY_SIZE.
Init ==
    /\ sock = "init"
    /\ nDelivered = 0
    /\ now = 0
    /\ buf_read = <<>>
    /\ thread_read = "None"
    /\ read_callback = "None"
    /\ read_timeout = 0
    /\ array_write = [i \in 1..ARRAY_SIZE |-> 0]
    /\ javaLock = "free"
    /\ pc = "idle"
    /\ op = "none"
    /\ buf = <<>>
    /\ buflen = 0
    /\ res = NoResult
    /\ calls = {}
    /\ raised = {}
    /\ t_call = 0
    /\ t_timeout = 0
    /\ wake = 0
    /\ wex = JniOtherErr
    /\ outCalls = <<>>
    /\ got = <<>>
    /\ rpc = "none"
    /\ read_size = 0
    /\ vec_read = <<>>
    /\ rres = NoResult
    /\ read_len = NoLength
    /\ rex = NoException
    /\ callback = "None"
    /\ val = None
    /\ attached = [shared |-> Java_make("app"), own |-> "none"]
    /\ tr = NoTranslation
    /\ rfcomm_sockets = [u \in Uuids |-> NoBridge]
    /\ dres = NoRequest
    /\ agent = "none"
    /\ apc = "idle"
    /\ chan_rx = <<>>
    /\ chan_tx = "none"
    /\ answered = <<>>
    /\ to_host = <<>>
    /\ asdf = "none"
    /\ ares = "none"

(***************************************************************************)
(* The foreign primitives: what a call may do, as a set of outcomes.       *)
(***************************************************************************)
Returned(v) == [raised |-> FALSE, val |-> v, ex |-> JniOtherErr]
Raised(e) == [raised |-> TRUE, val |-> FALSE, ex |-> e]

\* BluetoothSocket.isConnected()
IsConnectedOf(s) == {Returned(s = "connected")} \cup {Raised(e) : e \in SocketErrors}
ForeignIsConnected == IsConnectedOf(sock)

(***************************************************************************)
(* The application thread.                                                 *)
(***************************************************************************)
\* A call of an operation by the application: the observations of the
\* previous operation give way to those of this one.
Begin(o, b, n) ==
    /\ pc = "idle"
    /\ op' = o
    /\ buf' = b
    /\ buflen' = n
    /\ outCalls' = <<>>

\* The operation returns r to its caller: its locals and every guard of the
\* shared lock it holds go out of scope.
ReturnTo(l, r) ==
    /\ pc' = l
    /\ res' = r
    /\ javaLock' = "free"
    /\ t_call' = 0
    /\ t_timeout' = 0
    /\ wake' = 0
    /\ wex' = JniOtherErr

\* The running operation returns r: to the application, or, for the close()
\* that Drop::drop calls, to drop(), with which the bridge is gone.
Return(r) == ReturnTo(IF op = "drop" THEN "dropped" ELSE "idle", r)

\* The operation goes on at label l.
Goto(l) ==
    /\ pc' = l
    /\ res' = NoResult

\* std::sync::Mutex::lock on a mutex the calling thread already holds never
\* returns: the thread deadlocks or panics, depending on the platform.
Relock == pc' \in {"deadlocked", "panicked"}

\* The foreign call `name` was made, and raised if `r`.
Called(name, r) ==
    /\ calls' = calls \cup {name}
    /\ raised' = IF r THEN raised \cup {name} ELSE raised

(*--------------------------- set_read_timeout ----------------------------*)
\* The configured read timeout (spec section 3: "a configured read timeout
\* (default: non-blocking, i.e. zero)").
set_read_timeout ==
    /\ pc = "idle"
    /\ \E t \in 0..MaxTimeout : t # read_timeout /\ read_timeout' = t
    /\ UNCHANGED <<sockVars, now, buf_read, thread_read, read_callback,
                   array_write, javaLock, pc, opVars, res, calls, raised,
                   localVars, outCalls, got, readerVars>>
    /\ UNCHANGED outerVars

(*--------------------------- register_callback ---------------------------*)
\* The optional read-completion callback is put into the single slot, by the
\* application or by a callback that is being invoked (spec section 3: "an
\* optional read-completion callback"; section 7: "re-registering a callback
\* from within the callback itself").
register_callback ==
    /\ \E c \in Callbacks : c # read_callback /\ read_callback' = c
    /\ UNCHANGED <<sockVars, now, buf_read, thread_read, read_timeout, array_write,
                   appVars, readerVars>>
    /\ UNCHANGED outerVars

(*------------------------------- connect ---------------------------------*)
\* A bug connect_call could have: no early return for a socket that is
\* already connected.
connect_call_unguarded ==
    /\ Begin("connect", <<>>, 0)
    /\ \E o \in ForeignIsConnected :
         /\ calls' = {"isConnected"}
         /\ raised' = IF o.raised THEN {"isConnected"} ELSE {}
         /\ IF o.raised THEN Return(jerr(o.ex))
            ELSE Goto("c_connect") /\ javaLock' = "app" /\ UNCHANGED localVars
    /\ UNCHANGED <<sockVars, now, buf_read, fieldVars, got, readerVars>>
    /\ UNCHANGED outerVars

\* connect(), up to the lock taken for the foreign connect (socket.rs:118-122).
\* A bug connect_call could have: a connectedness query that fails counts as
\* "not connected" (unwrap_or(false) in place of `?`).
connect_call_query_failure_connects ==
    /\ Begin("connect", <<>>, 0)
    /\ \E o \in ForeignIsConnected :
         /\ calls' = {"isConnected"}
         /\ raised' = IF o.raised THEN {"isConnected"} ELSE {}
         /\ IF ~o.raised /\ o.val THEN Return(Ok(0))
            ELSE Goto("c_connect") /\ javaLock' = "app" /\ UNCHANGED localVars
    /\ UNCHANGED <<sockVars, now, buf_read, fieldVars, got, readerVars>>
    /\ UNCHANGED outerVars

connect_call ==
    /\ Begin("connect", <<>>, 0)
    /\ \E o \in ForeignIsConnected :
         /\ calls' = {"isConnected"}
         /\ raised' = IF o.raised THEN {"isConnected"} ELSE {}
         /\ IF o.raised THEN Return(jerr(o.ex))
            ELSE IF o.val THEN Return(Ok(0))
            ELSE Goto("c_connect") /\ javaLock' = "app" /\ UNCHANGED localVars
    /\ UNCHANGED <<sockVars, now, buf_read, fieldVars, got, readerVars>>
    /\ UNCHANGED outerVars

\* BluetoothSocket.connect(): it raises, or returns with the socket connected
\* (a socket never connected before) or left as it was.
ForeignConnect ==
    {[raised |-> TRUE, ex |-> e, sock |-> sock] : e \in SocketErrors \cup {SecurityEx}}
    \cup {[raised |-> FALSE, ex |-> JniOtherErr, sock |-> s] :
            s \in {sock} \cup (IF sock = "init" THEN {"connected"} ELSE {})}

\* A bug connect_foreign could have: the reader thread is spawned as soon as
\* the foreign connect returns without raising, connectedness not re-checked.
connect_foreign_no_recheck ==
    /\ pc = "c_connect"
    /\ \E c \in ForeignConnect :
         /\ sock' = c.sock
         /\ Called("connect", c.raised)
         /\ IF c.raised
            THEN /\ Return(jerr(c.ex))
                 /\ UNCHANGED <<thread_read, rpc>>
            ELSE /\ thread_read' = "Some"
                 /\ rpc' = "start"
                 /\ Return(Ok(0))
    /\ UNCHANGED <<nDelivered, now, buf_read, read_callback, read_timeout, array_write,
                   opVars, outCalls, got, read_size, vec_read, rres,
                   read_len, rex, cbVars>>
    /\ UNCHANGED outerVars

\* The closure of connect(): the foreign connect, the second connectedness
\* query, and the spawn of the reader thread (socket.rs:125-145).
connect_foreign ==
    /\ pc = "c_connect"
    /\ \E c \in ForeignConnect :
         /\ sock' = c.sock
         /\ IF c.raised
            THEN /\ Called("connect", TRUE)
                 /\ Return(jerr(c.ex))
                 /\ UNCHANGED <<thread_read, rpc>>
            ELSE \E q \in IsConnectedOf(c.sock) :
                   /\ calls' = calls \cup {"connect", "isConnected"}
                   /\ raised' = IF q.raised THEN raised \cup {"isConnected"} ELSE raised
                   /\ IF q.raised
                      THEN Return(jerr(q.ex)) /\ UNCHANGED <<thread_read, rpc>>
                      ELSE IF q.val
                      THEN /\ thread_read' = "Some"
                           /\ rpc' = "start"
                           /\ Return(Ok(0))
                      ELSE /\ Return(Err("NotConnected", <<>>))
                           /\ UNCHANGED <<thread_read, rpc>>
    /\ UNCHANGED <<nDelivered, now, buf_read, read_callback, read_timeout, array_write,
                   opVars, outCalls, got, read_size, vec_read, rres,
                   read_len, rex, cbVars>>
    /\ UNCHANGED outerVars

(*--------------------------------- read ----------------------------------*)
\* Duration::from_millis(100), the longest single sleep of read(), in clock units.
SleepStep == 1

\* A bug SleepFor could have: the whole step is slept whatever remains.
SleepForWholeStep(dur_rem) == SleepStep

\* `Duration::from_millis(100).min(dur_rem)`, the length of one sleep of
\* read() (socket.rs:301).
SleepFor(dur_rem) == Min(SleepStep, dur_rem)

\* A bug ReadResult could have: the test of `disconnected` the wrong way round.
ReadResultSwapped(cnt_read, disconnected) ==
    IF cnt_read > 0 THEN Ok(cnt_read)
    ELSE IF disconnected THEN Err("TimedOut", <<>>)
    ELSE Err("NotConnected", <<>>)

\* The result of read() once its loop has ended (socket.rs:307-313).
ReadResult(cnt_read, disconnected) ==
    IF cnt_read > 0 THEN Ok(cnt_read)
    ELSE IF ~disconnected THEN Err("TimedOut", <<>>)
    ELSE Err("NotConnected", <<>>)

\* A bug Deadline could have: the configured timeout is left out.
DeadlineNoTimeout(t, timeout) == t

\* `SystemTime::now() + self.read_timeout` (socket.rs:285).
Deadline(t, timeout) == t + timeout

\* read() returns r; the bytes of an Ok result reach the caller.
ReadReturn(r, b) ==
    /\ Return(r)
    /\ got' = IF r.kind = "Ok" THEN got \o b ELSE got

\* A bug read_call could have: no early return for an empty buffer.
read_call_no_early_return ==
    \E n \in 0..MaxBuf :
      /\ Begin("read", <<>>, n)
      /\ calls' = {}
      /\ raised' = {}
      /\ t_call' = now
      /\ t_timeout' = now + read_timeout
      /\ Goto("r_drain")
      /\ UNCHANGED <<javaLock, wake, wex>>
      /\ UNCHANGED <<sockVars, now, buf_read, fieldVars, got, readerVars>>
      /\ UNCHANGED outerVars

\* read(buf), up to the loop (socket.rs:280-288).
read_call ==
    \E n \in 0..MaxBuf :
      /\ Begin("read", <<>>, n)
      /\ calls' = {}
      /\ raised' = {}
      /\ IF n = 0
         THEN Return(Ok(0))
         ELSE /\ t_call' = now
              /\ t_timeout' = Deadline(now, read_timeout)
              /\ Goto("r_drain")
              /\ UNCHANGED <<javaLock, wake, wex>>
      /\ UNCHANGED <<sockVars, now, buf_read, fieldVars, got, readerVars>>
      /\ UNCHANGED outerVars

\* One pass over the queue under its lock, and the test for a full buffer
\* (socket.rs:290-296).
read_drain ==
    /\ pc = "r_drain"
    /\ LET cnt == Min(Len(buf_read), buflen - Len(buf))
           b == buf \o SubSeq(buf_read, 1, cnt)
       IN /\ buf_read' = SubSeq(buf_read, cnt + 1, Len(buf_read))
          /\ buf' = b
          /\ IF Len(b) >= buflen
             THEN ReadReturn(ReadResult(Len(b), FALSE), b)
             ELSE Goto("r_check") /\ UNCHANGED <<javaLock, got, localVars>>
    /\ UNCHANGED <<sockVars, now, fieldVars, op, buflen, calls, raised,
                   outCalls, readerVars>>
    /\ UNCHANGED outerVars

\* The connectedness query and the deadline test (socket.rs:297-304).
read_check ==
    /\ pc = "r_check"
    /\ \E o \in ForeignIsConnected :
         /\ Called("isConnected", o.raised)
         /\ IF o.raised
            THEN ReadReturn(jerr(o.ex), buf)
            ELSE IF ~o.val
            THEN ReadReturn(ReadResult(Len(buf), TRUE), buf)
            ELSE IF t_timeout >= now
            THEN /\ wake' = now + SleepFor(t_timeout - now)
                 /\ Goto("r_sleep")
                 /\ UNCHANGED <<javaLock, got, t_call, t_timeout, wex>>
            ELSE ReadReturn(ReadResult(Len(buf), FALSE), buf)
    /\ UNCHANGED <<sockVars, now, buf_read, fieldVars, opVars, outCalls, readerVars>>
    /\ UNCHANGED outerVars

\* std::thread::sleep returns (socket.rs:301).
read_wake ==
    /\ pc = "r_sleep"
    /\ now >= wake
    /\ wake' = 0
    /\ Goto("r_drain")
    /\ UNCHANGED <<sockVars, now, buf_read, fieldVars, javaLock, opVars,
                   calls, raised, t_call, t_timeout, wex, outCalls, got, readerVars>>
    /\ UNCHANGED outerVars

(*--------------------------------- write ---------------------------------*)
\* The payloads the application writes: of every length up to one byte more
\* than the initial capacity of the scratch array, with two contents each.
Payloads == {Pattern(base, n) : base \in {10, 126}, n \in 0..(ARRAY_SIZE + 1)}

\* A bug PrepareArray could have: the array is always replaced by one made of
\* the payload.
PrepareArrayAlwaysNew(array, payload) == MapSeq(payload, ToI8)

\* The scratch array once the payload is in it: a new array made of the
\* payload when it does not fit (byte_array_from_slice), and otherwise the old
\* one with the payload written at offset 0 (set_byte_array_region)
\* (socket.rs:328-343).
PrepareArray(array, payload) ==
    IF Len(array) < Len(payload)
    THEN MapSeq(payload, ToI8)
    ELSE [i \in 1..Len(array) |->
            IF i <= Len(payload) THEN ToI8(payload[i]) ELSE array[i]]

\* A bug WriteArgs could have: the length of the scratch array is passed
\* instead of the length of the payload.
WriteArgsWholeArray(array, payload) == [bytes |-> array, off |-> 0, len |-> Len(array)]

\* The arguments of the foreign OutputStream.write(byte[], int, int)
\* (socket.rs:349-364).
WriteArgs(array, payload) == [bytes |-> array, off |-> 0, len |-> Len(payload)]

\* The octets an OutputStream.write(bytes, off, len) puts on the wire.
Wire(c) == MapSeq(SubSeq(c.bytes, c.off + 1, c.off + c.len), ToU8)

\* write(buf), up to the foreign write: the lock, the capacity of the scratch
\* array, and the payload put into it (socket.rs:318-343).
write_call ==
    \E payload \in Payloads :
      /\ Begin("write", payload, Len(payload))
      /\ IF payload = <<>>
         THEN /\ Return(Ok(0))
              /\ calls' = {}
              /\ raised' = {}
              /\ UNCHANGED array_write
         ELSE \/ /\ array_write' = PrepareArray(array_write, payload)
                 /\ calls' = {"getArrayLength", "putArray"}
                 /\ raised' = {}
                 /\ Goto("w_call")
                 /\ javaLock' = "app"
                 /\ UNCHANGED localVars
              \/ \E e \in JniErrors :
                   /\ calls' = {"getArrayLength"}
                   /\ raised' = {"getArrayLength"}
                   /\ Return(jerr(e))
                   /\ UNCHANGED array_write
      /\ UNCHANGED <<sockVars, now, buf_read, thread_read, read_callback, read_timeout,
                     got, readerVars>>
      /\ UNCHANGED outerVars

\* The foreign write, once, under the lock taken by write() (socket.rs:346-366).
write_foreign ==
    /\ pc = "w_call"
    /\ \/ /\ sock = "connected"
          /\ outCalls' = Append(outCalls, WriteArgs(array_write, buf))
          /\ Called("write", FALSE)
          /\ Return(Ok(buflen))
       \/ \E e \in ForeignErrors :
            /\ wex' = e
            /\ Called("write", TRUE)
            /\ Goto("w_exc")
            /\ UNCHANGED <<javaLock, outCalls, t_call, t_timeout, wake>>
    /\ UNCHANGED <<sockVars, now, buf_read, fieldVars, opVars, got, readerVars>>
    /\ UNCHANGED outerVars

\* The map_err closure of write(): self.is_connected(), which locks the shared
\* handle, called while write() still holds that lock (socket.rs:367-373).
write_exc ==
    /\ pc = "w_exc"
    /\ IF javaLock = "app"
       THEN Relock /\ UNCHANGED <<res, javaLock, calls, raised, localVars>>
       ELSE \E o \in ForeignIsConnected :
              /\ Called("isConnected", o.raised)
              /\ IF o.raised \/ ~o.val
                 THEN Return(Err("NotConnected", <<>>))
                 ELSE Return(jerr(wex))
    /\ UNCHANGED <<sockVars, now, buf_read, fieldVars, opVars, outCalls, got, readerVars>>
    /\ UNCHANGED outerVars

(*--------------------------------- flush ---------------------------------*)
\* OutputStream.flush()
ForeignFlush == {Returned(TRUE)} \cup {Raised(e) : e \in ForeignErrors}

\* flush() (socket.rs:379-394).
flush_call ==
    /\ Begin("flush", <<>>, 0)
    /\ \E f \in ForeignFlush :
         /\ calls' = {"flush"}
         /\ raised' = IF f.raised THEN {"flush"} ELSE {}
         /\ Return(IF f.raised THEN jerr(f.ex) ELSE Ok(0))
    /\ UNCHANGED <<sockVars, now, buf_read, fieldVars, got, readerVars>>
    /\ UNCHANGED outerVars

(*--------------------------------- accept --------------------------------*)
\* BluetoothServerSocket.accept(timeout) of the listening socket.
ForeignAccept == {Returned(TRUE)} \cup {Raised(e) : e \in ForeignErrors}

\* BluetoothRfcommConnectable::accept up to the foreign accept, which it makes
\* inside use_env under the guard of the shared handle (android.rs:220-233).
accept_call ==
    /\ Begin("accept", <<>>, 0)
    /\ \E a \in ForeignAccept :
         /\ calls' = {"accept"}
         /\ raised' = IF a.raised THEN {"accept"} ELSE {}
         /\ IF a.raised
            THEN Return(jerr(a.ex))
            ELSE Goto("a_new") /\ javaLock' = "app" /\ UNCHANGED localVars
    /\ UNCHANGED <<sockVars, now, buf_read, fieldVars, got, readerVars>>
    /\ UNCHANGED outerVars

\* RfcommStream::new(socket, self.java.clone()), called inside the closure of
\* accept: it starts with java.lock() on the same handle (android.rs:131, 237).
accept_new ==
    /\ pc = "a_new"
    /\ IF javaLock = "app"
       THEN Relock /\ UNCHANGED <<res, javaLock, calls, raised, localVars>>
       ELSE \E g \in ForeignFlush :
              /\ Called("getInputStream", g.raised)
              /\ Return(IF g.raised THEN jerr(g.ex) ELSE Ok(0))
    /\ UNCHANGED <<sockVars, now, buf_read, fieldVars, opVars, outCalls, got, readerVars>>
    /\ UNCHANGED outerVars

(*--------------------------------- close ---------------------------------*)
\* A bug close_call could have: no early return for a socket that is not
\* connected.
close_call_unguarded ==
    /\ Begin("close", <<>>, 0)
    /\ \E o \in ForeignIsConnected :
         /\ calls' = {"isConnected"}
         /\ raised' = IF o.raised THEN {"isConnected"} ELSE {}
         /\ IF o.raised THEN Return(jerr(o.ex))
            ELSE Goto("x_flush") /\ UNCHANGED <<javaLock, localVars>>
    /\ UNCHANGED <<sockVars, now, buf_read, fieldVars, got, readerVars>>
    /\ UNCHANGED outerVars

\* close(), its connectedness query (socket.rs:260-264).
close_call ==
    /\ Begin("close", <<>>, 0)
    /\ \E o \in ForeignIsConnected :
         /\ calls' = {"isConnected"}
         /\ raised' = IF o.raised THEN {"isConnected"} ELSE {}
         /\ IF o.raised THEN Return(jerr(o.ex))
            ELSE IF ~o.val THEN Return(Ok(0))
            ELSE Goto("x_flush") /\ UNCHANGED <<javaLock, localVars>>
    /\ UNCHANGED <<sockVars, now, buf_read, fieldVars, got, readerVars>>
    /\ UNCHANGED outerVars

\* `let _ = self.flush();` (socket.rs:265).
close_flush ==
    /\ pc = "x_flush"
    /\ \E f \in ForeignFlush : Called("flush", f.raised)
    /\ Goto("x_close")
    /\ UNCHANGED <<sockVars, now, buf_read, fieldVars, javaLock, opVars,
                   localVars, outCalls, got, readerVars>>
    /\ UNCHANGED outerVars

\* BluetoothSocket.close(): the socket is closed, unless the call raises
\* before it got that far.
ForeignClose ==
    {[raised |-> FALSE, ex |-> JniOtherErr, sock |-> "closed"]}
    \cup {[raised |-> TRUE, ex |-> e, sock |-> s] :
            e \in SocketErrors, s \in {sock, "closed"}}

\* The foreign close under the shared lock (socket.rs:266-271).
close_foreign ==
    /\ pc = "x_close"
    /\ \E c \in ForeignClose :
         /\ sock' = c.sock
         /\ Called("close", c.raised)
         /\ IF c.raised
            THEN Return(jerr(c.ex))
            ELSE Goto("x_join") /\ javaLock' = "app" /\ UNCHANGED localVars
    /\ UNCHANGED <<nDelivered, now, buf_read, fieldVars, opVars, outCalls, got,
                   readerVars>>
    /\ UNCHANGED outerVars

\* `if let Some(th) = self.thread_read.take() { let _ = th.join(); }`: the
\* join returns once the reader thread has ended (socket.rs:272-275).
close_join ==
    /\ pc = "x_join"
    /\ thread_read = "Some" => rpc = "done"
    /\ thread_read' = "None"
    /\ Return(Ok(0))
    /\ UNCHANGED <<sockVars, now, buf_read, read_callback, read_timeout, array_write,
                   opVars, calls, raised, outCalls, got, readerVars>>
    /\ UNCHANGED outerVars

(*---------------------------------- drop ---------------------------------*)
\* Drop::drop: `let _ = self.close();`, here up to the connectedness query of
\* that close(); its later steps are those of close() (socket.rs:397-401).
drop_call ==
    /\ Begin("drop", <<>>, 0)
    /\ \E o \in ForeignIsConnected :
         /\ calls' = {"isConnected"}
         /\ raised' = IF o.raised THEN {"isConnected"} ELSE {}
         /\ IF o.raised THEN ReturnTo("dropped", jerr(o.ex))
            ELSE IF ~o.val THEN ReturnTo("dropped", Ok(0))
            ELSE Goto("x_flush") /\ UNCHANGED <<javaLock, localVars>>
    /\ UNCHANGED <<sockVars, now, buf_read, fieldVars, got, readerVars>>
    /\ UNCHANGED outerVars

(***************************************************************************)
(* The reader thread: BluetoothSocket::read_loop, on its own Java handle.  *)
(***************************************************************************)
\* The batch read size for a getMaxReceivePacketSize() of m (socket.rs:159-170).
ReadSize(m) == IF m > 0 THEN (ARRAY_SIZE \div m) * m ELSE ARRAY_SIZE

\* What getMaxReceivePacketSize() may return.
RecvSizes == (-1)..(ARRAY_SIZE + 1)

\* The reader thread ends with result r.
ReaderExit(r) ==
    /\ rpc' = "done"
    /\ rres' = r

\* `Self::read_callback(&read_callback, val)` up to the invocation: the
\* callback is taken out of the slot and the lock of the slot is released;
\* with an empty slot nothing is done and the caller goes on with `after`
\* (socket.rs:246-249).
InvokeCallback(v, after) ==
    IF read_callback = "None"
    THEN /\ after
         /\ UNCHANGED <<read_callback, callback, val>>
    ELSE /\ callback' = read_callback
         /\ read_callback' = "None"
         /\ val' = v
         /\ rpc' = "cb_invoke"
         /\ UNCHANGED rres

\* A bug ReaderHandle could have: the reader thread borrows the bridge's
\* shared handle.
ReaderHandleBorrowed == "shared"

\* The handle the reader thread makes its foreign calls through: the one it
\* builds itself as its first statement, not the bridge's shared one
\* (socket.rs:138-139).
ReaderHandle == "own"

\* A bug CanUse could have: every handle is behind the bridge's mutex, the
\* reader thread's own too.
CanUseBehindMutex(h) == javaLock = "free"

\* The reader thread can make a call through handle h: its own handle is
\* its own to use, and the bridge's shared handle is behind the bridge's
\* mutex, to be had only while no other thread holds it (socket.rs:138-139,
\* `read_loop(&mut java, ..)` on the handle made in the thread).
CanUse(h) == h = "shared" => javaLock = "free"

\* The thread starts: its own handle, the method id, the batch read size (the
\* default when the query fails) and the working array (socket.rs:138-177).
reader_start ==
    /\ rpc = "start"
    /\ CanUse(ReaderHandle)
    /\ attached' = [attached EXCEPT ![ReaderHandle] = Java_make("reader")]
    /\ \/ \E m \in RecvSizes : read_size' = ReadSize(m) /\ rpc' = "read" /\ UNCHANGED rres
       \/ read_size' = ARRAY_SIZE /\ rpc' = "read" /\ UNCHANGED rres
       \/ \E e \in JniErrors : ReaderExit(jerr(e)) /\ UNCHANGED read_size
    /\ UNCHANGED <<sockVars, now, buf_read, fieldVars, appVars, vec_read, read_len, rex,
                   cbVars>>
    /\ UNCHANGED <<tr, deviceVars, agentVars>>

\* The bytes the foreign input stream puts into the working array when it
\* hands out k more bytes of the peer's stream.
Incoming(k) == [i \in 1..k |-> ToI8(PeerByte(nDelivered + i))]

\* InputStream.read(array, 0, read_size) returns a positive length
\* (socket.rs:182-207).
reader_read_data ==
    /\ rpc = "read"
    /\ CanUse(ReaderHandle)
    /\ sock = "connected"
    /\ \E k \in 1..Min(read_size, MaxBytes - nDelivered) :
         /\ vec_read' = Incoming(k)
         /\ nDelivered' = nDelivered + k
         /\ read_len' = Length(k)
    /\ rpc' = "append"
    /\ UNCHANGED <<sock, now, buf_read, fieldVars, appVars, read_size, rres, rex, cbVars>>
    /\ UNCHANGED outerVars

\* A bug reader_read_empty could have: a non-positive length ends the thread
\* as a closure does.
reader_read_empty_exits ==
    /\ rpc = "read"
    /\ CanUse(ReaderHandle)
    /\ \E n \in NonPositive : read_len' = Length(n)
    /\ ReaderExit(Ok(0))
    /\ UNCHANGED <<sockVars, now, buf_read, fieldVars, appVars, read_size, vec_read,
                   rex, cbVars>>
    /\ UNCHANGED outerVars

\* InputStream.read returns a non-positive length, whatever the state of the
\* socket: the `continue` is next (socket.rs:201-207).
reader_read_empty ==
    /\ rpc = "read"
    /\ CanUse(ReaderHandle)
    /\ \E n \in NonPositive : read_len' = Length(n)
    /\ rpc' = "retry"
    /\ UNCHANGED <<sockVars, now, buf_read, fieldVars, appVars, read_size, vec_read, rres,
                   rex, cbVars>>
    /\ UNCHANGED outerVars

\* `continue`: the next turn of the loop, with nothing else done
\* (socket.rs:206, 179).
reader_continue ==
    /\ rpc = "retry"
    /\ CanUse(ReaderHandle)
    /\ rpc' = "read"
    /\ read_len' = NoLength
    /\ UNCHANGED <<sockVars, now, buf_read, fieldVars, appVars, read_size, vec_read, rres,
                   rex, cbVars>>
    /\ UNCHANGED outerVars

\* A bug SaysClosed could have: the message is searched as it is, without
\* to_lowercase.
SaysClosedCaseSensitive(e) == e.java /\ Contains(e.msg, "closed")

\* The message of jni_last_cleared_ex() says "closed" (socket.rs:222-224).
SaysClosed(e) == e.java /\ Contains(to_lowercase(e.msg), "closed")

\* InputStream.read raises (socket.rs:221-232).
reader_read_raise ==
    /\ rpc = "read"
    /\ CanUse(ReaderHandle)
    /\ \E e \in ForeignErrors :
         /\ rpc' = IF SaysClosed(e) THEN "r_close" ELSE "r_isconn"
         /\ rex' = e
    /\ UNCHANGED <<sockVars, now, buf_read, fieldVars, appVars, read_size, vec_read, rres,
                   read_len, callback, val>>
    /\ UNCHANGED outerVars

\* A bug write_all could have: the bytes go to the head of the queue.
write_all_at_head(queue, bytes) == bytes \o queue

\* VecDeque's io::Write::write_all: the bytes go to the tail of the queue
\* (socket.rs:215-219).
write_all(queue, bytes) == queue \o bytes

\* get_byte_array_region, the append to the queue under its lock, and the
\* callback with Some(len) (socket.rs:210-220).
reader_append ==
    /\ rpc = "append"
    /\ CanUse(ReaderHandle)
    /\ vec_read' = <<>>
    /\ read_len' = NoLength
    /\ \/ /\ buf_read' = write_all(buf_read, MapSeq(vec_read, ToU8))
          /\ InvokeCallback(Some(read_len.len), rpc' = "read" /\ UNCHANGED rres)
       \/ \E e \in JniErrors :
            /\ ReaderExit(jerr(e))
            /\ UNCHANGED <<buf_read, read_callback, callback, val>>
    /\ UNCHANGED <<sockVars, now, thread_read, read_timeout, array_write, appVars, read_size,
                   rex>>
    /\ UNCHANGED outerVars

\* The clean closure: the foreign close, its failure ignored, the callback
\* with None, and the end of the thread (socket.rs:224-231).
reader_close ==
    /\ rpc = "r_close"
    /\ CanUse(ReaderHandle)
    /\ \E c \in ForeignClose : sock' = c.sock
    /\ InvokeCallback(None, ReaderExit(Ok(0)))
    /\ UNCHANGED <<nDelivered, now, buf_read, thread_read, read_timeout, array_write,
                   appVars, read_size, vec_read, read_len>>
    /\ rex' = NoException
    /\ UNCHANGED outerVars

\* The connectedness query after any other exception (socket.rs:233-240).
reader_isconn ==
    /\ rpc = "r_isconn"
    /\ CanUse(ReaderHandle)
    /\ \E o \in ForeignIsConnected :
         IF o.raised
         THEN ReaderExit(jerr(o.ex)) /\ UNCHANGED <<read_callback, callback, val>>
         ELSE IF ~o.val
         THEN InvokeCallback(None, ReaderExit(Ok(0)))
         ELSE rpc' = "read" /\ UNCHANGED <<rres, read_callback, callback, val>>
    /\ UNCHANGED <<sockVars, now, buf_read, thread_read, read_timeout, array_write,
                   appVars, read_size, vec_read, read_len>>
    /\ rex' = NoException
    /\ UNCHANGED outerVars

\* `callback(val)`: the callback runs, outside the lock of the slot
\* (socket.rs:250).
callback_invoke ==
    /\ rpc = "cb_invoke"
    /\ rpc' = "cb_restore"
    /\ UNCHANGED <<sockVars, now, buf_read, fieldVars, appVars, read_size, vec_read, rres,
                   read_len, rex, callback, val>>
    /\ UNCHANGED outerVars

\* A bug callback_restore could have: a slot found filled is emptied, the
\* callback set during the invocation being dropped with the old one.
callback_restore_drops_new ==
    /\ rpc = "cb_restore"
    /\ read_callback' = IF read_callback = "None" THEN callback ELSE "None"
    /\ callback' = "None"
    /\ val' = None
    /\ IF val.some THEN rpc' = "read" /\ UNCHANGED rres ELSE ReaderExit(Ok(0))
    /\ UNCHANGED <<sockVars, now, buf_read, thread_read, read_timeout, array_write,
                   appVars, read_size, vec_read, read_len, rex>>
    /\ UNCHANGED outerVars

\* A bug callback_restore could have: the old callback is put back whatever
\* the slot holds.
callback_restore_overwrites ==
    /\ rpc = "cb_restore"
    /\ read_callback' = callback
    /\ callback' = "None"
    /\ val' = None
    /\ IF val.some THEN rpc' = "read" /\ UNCHANGED rres ELSE ReaderExit(Ok(0))
    /\ UNCHANGED <<sockVars, now, buf_read, thread_read, read_timeout, array_write,
                   appVars, read_size, vec_read, read_len, rex>>
    /\ UNCHANGED outerVars

\* The slot is locked again and the old callback put back only if the slot is
\* still empty; then the loop goes on after Some(len), and the thread ends
\* after None (socket.rs:251-254, 220, 229-230, 238-239).
callback_restore ==
    /\ rpc = "cb_restore"
    /\ read_callback' = IF read_callback = "None" THEN callback ELSE read_callback
    /\ callback' = "None"
    /\ val' = None
    /\ IF val.some THEN rpc' = "read" /\ UNCHANGED rres ELSE ReaderExit(Ok(0))
    /\ UNCHANGED <<sockVars, now, buf_read, thread_read, read_timeout, array_write,
                   appVars, read_size, vec_read, read_len, rex>>
    /\ UNCHANGED outerVars

(***************************************************************************)
(* The exception translator, step by step (android.rs, jerr).              *)
(***************************************************************************)
\* The variables of the bridge, which the translator and the device leave alone.
bridgeVars == <<sockVars, now, buf_read, fieldVars, appVars, readerVars>>

\* The class names and messages of the exceptions a foreign call may raise.
ClassFrags == {"java.lang.", "SecurityException", "IllegalArgumentException", "IOException"}
ClassNames == UNION {[1..n -> ClassFrags] : n \in 1..MaxClassLen}
Messages == {<<"Broken pipe">>, <<"socket ", "closed">>}

\* What a failing JNI call hands to jerr: Error::JavaException with the
\* exception pending in the environment, or another jni::errors::Error.
Caught ==
    {[java |-> TRUE, cls |-> c, msg |-> m] : c \in ClassNames, m \in Messages}
    \cup {JniOtherErr}

\* jerr is called with a caught error (android.rs:12-13).
jerr_caught ==
    /\ tr.stage \in {"idle", "done"}
    /\ \E e \in Caught :
         tr' = [stage |-> "caught", err |-> e, pending |-> e.java,
                described |-> FALSE, out |-> NoResult]
    /\ UNCHANGED <<bridgeVars, attached, deviceVars, agentVars>>

\* `if let JavaException = err`: jni_clear_ex clears the pending exception;
\* any other error becomes Other at once (android.rs:14-15, 29-31).
jerr_clear ==
    /\ tr.stage = "caught"
    /\ IF tr.err.java
       THEN tr' = [tr EXCEPT !.stage = "cleared", !.pending = FALSE]
       ELSE tr' = [tr EXCEPT !.stage = "done", !.out = jerr(tr.err)]
    /\ UNCHANGED <<bridgeVars, attached, deviceVars, agentVars>>

\* jni_last_cleared_ex(), get_class_name and get_throwable_msg: the class name
\* and the message are retrieved, or one of the three fails (android.rs:16-18).
jerr_describe ==
    /\ tr.stage = "cleared"
    /\ \E ok \in BOOLEAN : tr' = [tr EXCEPT !.stage = "described", !.described = ok]
    /\ UNCHANGED <<bridgeVars, attached, deviceVars, agentVars>>

\* The classification, or `unwrap_or(std::io::Error::other(err))` when the
\* description failed (android.rs:19-28).
jerr_map ==
    /\ tr.stage = "described"
    /\ tr' = [tr EXCEPT !.stage = "done",
                        !.out = IF tr.described THEN jerr(tr.err)
                                ELSE Err("Other", <<"JavaException">>)]
    /\ UNCHANGED <<bridgeVars, attached, deviceVars, agentVars>>

(***************************************************************************)
(* The device and its cache of bridges (android/device.rs).                *)
(***************************************************************************)
\* `if is_secure { "createRfcommSocketToServiceRecord" } else
\* { "createInsecureRfcommSocketToServiceRecord" }` (device.rs:163-167, and
\* the same at 109-113).
MethodName(is_secure) ==
    IF is_secure THEN "createRfcommSocketToServiceRecord"
    ELSE "createInsecureRfcommSocketToServiceRecord"

\* The foreign socket object a creation call of the platform returns: a new
\* one, none of those the cached bridges are built on.
NewObject == 1 + Cardinality({u \in Uuids : rfcomm_sockets[u] # NoBridge})

\* The foreign socket BluetoothDevice.<method>(uuid) creates, and the bridge
\* built around it.
ForeignSocket(method, uuid) ==
    [uuid |-> uuid,
     obj |-> NewObject,
     is_secure |-> method \in {"createRfcommSocketToServiceRecord",
                               "createL2capChannel"},
     kind |-> IF method \in {"createL2capChannel", "createInsecureL2capChannel"}
              THEN "l2cap" ELSE "rfcomm"]

\* A bug get_socket could have: every request derives a foreign socket and
\* puts the bridge built on it into the cache, in the place of the one
\* that was there.
get_socket_replaces(k, uuid, is_secure) ==
    /\ pc \in {"idle", "dropped"}
    /\ \/ \E e \in SocketErrors \cup {SecurityEx} :
            /\ UNCHANGED rfcomm_sockets
            /\ dres' = [kind |-> k, uuid |-> uuid, is_secure |-> is_secure,
                        ok |-> FALSE, bridge |-> NoBridge, text |-> jerr(e).text]
       \/ /\ rfcomm_sockets' =
               [rfcomm_sockets EXCEPT ![uuid] = ForeignSocket(MethodName(is_secure), uuid)]
          /\ dres' = [kind |-> k, uuid |-> uuid, is_secure |-> is_secure, ok |-> TRUE,
                      bridge |-> rfcomm_sockets'[uuid], text |-> <<>>]
    /\ UNCHANGED <<bridgeVars, attached, tr, agentVars>>

\* The body shared by get_rfcomm_socket and get_l2cap_socket, for a request
\* of a socket of kind k: a bridge is built, and inserted if the build
\* succeeds, only when the cache has none under the UUID; the answer is what
\* the cache then holds under the UUID (device.rs:145-191, 91-137).
get_socket(k, uuid, is_secure) ==
    /\ pc \in {"idle", "dropped"}
    /\ IF rfcomm_sockets[uuid] # NoBridge
       THEN /\ UNCHANGED rfcomm_sockets
            /\ dres' = [kind |-> k, uuid |-> uuid, is_secure |-> is_secure, ok |-> TRUE,
                        bridge |-> rfcomm_sockets[uuid], text |-> <<>>]
       ELSE \/ \E e \in SocketErrors \cup {SecurityEx} :
                 /\ UNCHANGED rfcomm_sockets
                 /\ dres' = [kind |-> k, uuid |-> uuid, is_secure |-> is_secure,
                             ok |-> FALSE, bridge |-> NoBridge, text |-> jerr(e).text]
            \/ /\ rfcomm_sockets' =
                    [rfcomm_sockets EXCEPT ![uuid] = ForeignSocket(MethodName(is_secure), uuid)]
               /\ dres' = [kind |-> k, uuid |-> uuid, is_secure |-> is_secure, ok |-> TRUE,
                           bridge |-> rfcomm_sockets'[uuid], text |-> <<>>]
            \/ /\ UNCHANGED rfcomm_sockets
               /\ dres' = [kind |-> k, uuid |-> uuid, is_secure |-> is_secure,
                           ok |-> FALSE, bridge |-> NoBridge,
                           text |-> <<"Socket does not exist">>]
    /\ UNCHANGED <<bridgeVars, attached, tr, agentVars>>

\* BluetoothDevice::get_rfcomm_socket (device.rs:140-192).
get_rfcomm_socket == \E uuid \in Uuids, is_secure \in BOOLEAN : get_socket("rfcomm", uuid, is_secure)

\* BluetoothDevice::get_l2cap_socket (device.rs:86-138).
get_l2cap_socket == \E uuid \in Uuids, is_secure \in BOOLEAN : get_socket("l2cap", uuid, is_secure)

(***************************************************************************)
(* The desktop pairing agent (linux.rs, BluetoothHandler::build_agent).    *)
(***************************************************************************)
\* ResponseToPasskey (lib.rs:53-62).
Responses == {"Yes", "No", "Cancel", "Waiting"}

\* The passkey handlers of the agent.
Handlers == {"display_passkey", "request_confirmation"}

\* The request a handler sends to the host: DisplayPasskey(passkey, chan.0) or
\* ConfirmPasskey(passkey, chan.0).
Request(h) == IF h = "display_passkey" THEN "DisplayPasskey" ELSE "ConfirmPasskey"

\* A bug Verdict could have: the arms of No and Cancel exchanged.
VerdictArmsExchanged(m) ==
    CASE m = "Yes" -> "Ok"
      [] m = "No" -> "Canceled"
      [] m = "Cancel" -> "Rejected"

\* The arms of `match m` that return: Ok(()), Err(ReqError::Rejected),
\* Err(ReqError::Canceled).
Verdict(m) ==
    CASE m = "Yes" -> "Ok"
      [] m = "No" -> "Rejected"
      [] m = "Cancel" -> "Canceled"

\* The handler sends CancelDisplayPasskey (ignoring the outcome of the send)
\* and returns r.
AgentReturn(r) ==
    /\ to_host' = Append(to_host, "CancelDisplayPasskey")
    /\ ares' = r
    /\ apc' = "returned"

\* The session invokes a passkey handler: it creates the response channel,
\* sends the request with the channel's sender in it, and enters its loop.
\* The send result is ignored: a message the host's receiver no longer takes
\* is dropped, and the sender with it.
agent_call ==
    /\ apc \in {"idle", "returned"}
    /\ \E h \in Handlers, delivered \in BOOLEAN :
         /\ agent' = h
         /\ to_host' = <<Request(h)>>
         /\ chan_tx' = IF delivered THEN "host" ELSE "dropped"
    /\ chan_rx' = <<>>
    /\ answered' = <<>>
    /\ asdf' = "none"
    /\ ares' = "none"
    /\ apc' = "recv"
    /\ UNCHANGED <<bridgeVars, attached, tr, deviceVars>>

\* timeout(5 s, chan.1.recv()) yields Ok(Some(m)): Yes, No and Cancel return,
\* Waiting goes round the loop.
agent_recv_some ==
    /\ apc = "recv"
    /\ chan_rx # <<>>
    /\ chan_rx' = Tail(chan_rx)
    /\ asdf' = "Some"
    /\ IF Head(chan_rx) = "Waiting"
       THEN UNCHANGED <<to_host, ares, apc>>
       ELSE AgentReturn(Verdict(Head(chan_rx)))
    /\ UNCHANGED <<agent, chan_tx, answered>>
    /\ UNCHANGED <<bridgeVars, attached, tr, deviceVars>>

\* timeout(5 s, chan.1.recv()) yields Ok(None), at once: the channel is empty
\* and its sender is gone. The arm is empty: the handler goes round the loop.
agent_recv_none ==
    /\ apc = "recv"
    /\ chan_rx = <<>>
    /\ chan_tx = "dropped"
    /\ asdf' = "None"
    /\ UNCHANGED <<agent, apc, chan_rx, chan_tx, answered, to_host, ares>>
    /\ UNCHANGED <<bridgeVars, attached, tr, deviceVars>>

\* timeout(5 s, chan.1.recv()) yields Err(Elapsed): nothing arrived for 5 s on
\* a channel whose sender is alive.
agent_elapsed ==
    /\ apc = "recv"
    /\ chan_rx = <<>>
    /\ chan_tx = "host"
    /\ asdf' = "Elapsed"
    /\ AgentReturn("Canceled")
    /\ UNCHANGED <<agent, chan_rx, chan_tx, answered>>
    /\ UNCHANGED <<bridgeVars, attached, tr, deviceVars>>

\* display_passkey only: the other branch of select!, the session cancels the
\* request (a.cancel).
agent_cancel ==
    /\ apc = "recv"
    /\ agent = "display_passkey"
    /\ AgentReturn("Canceled")
    /\ UNCHANGED <<agent, chan_rx, chan_tx, answered, asdf>>
    /\ UNCHANGED <<bridgeVars, attached, tr, deviceVars>>

\* The host answers on the sender it was given.
host_respond ==
    /\ apc = "recv"
    /\ chan_tx = "host"
    /\ Len(answered) < MaxResponses
    /\ \E r \in Responses :
         /\ chan_rx' = Append(chan_rx, r)
         /\ answered' = Append(answered, r)
    /\ UNCHANGED <<agent, apc, chan_tx, to_host, asdf, ares>>
    /\ UNCHANGED <<bridgeVars, attached, tr, deviceVars>>

\* The host drops the sender it was given.
host_drop ==
    /\ apc = "recv"
    /\ chan_tx = "host"
    /\ chan_tx' = "dropped"
    /\ UNCHANGED <<agent, apc, chan_rx, answered, to_host, asdf, ares>>
    /\ UNCHANGED <<bridgeVars, attached, tr, deviceVars>>

(***************************************************************************)
(* The environment.                                                        *)
(***************************************************************************)
\* The peer, or the platform, drops the connection.
remote_disconnect ==
    /\ sock = "connected"
    /\ sock' = "disconnected"
    /\ UNCHANGED <<nDelivered, now, buf_read, fieldVars, appVars, readerVars>>
    /\ UNCHANGED outerVars

\* Time passes.
tick ==
    /\ now < MaxTime
    /\ now' = now + 1
    /\ UNCHANGED <<sockVars, buf_read, fieldVars, appVars, readerVars>>
    /\ UNCHANGED outerVars

(***************************************************************************)
(* The specifications.                                                     *)
(***************************************************************************)
Connect == connect_call \/ connect_foreign
Read == read_call \/ read_drain \/ read_check \/ read_wake
Write == write_call \/ write_foreign \/ write_exc
Accept == accept_call \/ accept_new
Recv == agent_recv_some \/ agent_recv_none \/ agent_elapsed
Handler == Recv \/ agent_cancel
Host == host_respond \/ host_drop
Close == close_call \/ close_flush \/ close_foreign \/ close_join
Reader ==
    \/ reader_start
    \/ reader_read_data
    \/ reader_read_empty
    \/ reader_continue
    \/ reader_read_raise
    \/ reader_append
    \/ reader_close
    \/ reader_isconn

\* The steps of BluetoothSocket::read_callback once a callback was taken out.
Notify == callback_invoke \/ callback_restore

\* The whole bridge.
Next ==
    \/ set_read_timeout
    \/ register_callback
    \/ Notify
    \/ Connect
    \/ Read
    \/ Write
    \/ Accept
    \/ flush_call
    \/ Close
    \/ Reader
    \/ remote_disconnect
    \/ tick
    \/ agent_call
    \/ Handler
    \/ Host

Spec == Init /\ [][Next]_vars

\* An application that connects and reads.
NextRead == set_read_timeout \/ Connect \/ Read \/ Reader \/ remote_disconnect \/ tick

SpecRead == Init /\ [][NextRead]_vars

\* An application that connects, writes and flushes.
NextWrite == Connect \/ Write \/ flush_call \/ remote_disconnect

SpecWrite == Init /\ [][NextWrite]_vars

\* An application that also accepts incoming connections on a listening
\* socket, through the same shared handle.
NextLock == Connect \/ Write \/ Accept \/ flush_call \/ remote_disconnect

SpecLock == Init /\ [][NextLock]_vars

\* The pairing agent and the host of the application.
NextAgent == agent_call \/ Handler \/ Host

SpecAgent == Init /\ [][NextAgent]_vars

\* The runtime polls the handler's future: a wait that can end does end.
SpecAgentFair == SpecAgent /\ WF_vars(Recv)

\* An application that connects and closes.
NextClose == Connect \/ Close \/ Reader \/ remote_disconnect

SpecClose == Init /\ [][NextClose]_vars

\* The same application with threads that are scheduled: an operation of
\* the application that can take a step takes one, and so does the reader
\* thread; nothing is assumed of what the foreign calls answer.
SpecCloseFair == SpecClose /\ WF_vars(Close) /\ WF_vars(Reader)

\* An application that connects and writes while the reader thread runs.
NextShare == Connect \/ Write \/ Reader \/ remote_disconnect

SpecShare == Init /\ [][NextShare]_vars

\* The translator at work on caught errors.
NextJerr == jerr_caught \/ jerr_clear \/ jerr_describe \/ jerr_map

SpecJerr == Init /\ [][NextJerr]_vars

\* An application that asks a device for sockets.
NextDevice == get_rfcomm_socket \/ get_l2cap_socket

SpecDevice == Init /\ [][NextDevice]_vars

\* An application that registers callbacks, connects and reads.
NextNotify ==
    \/ register_callback
    \/ Connect
    \/ Read
    \/ Reader
    \/ Notify
    \/ remote_disconnect

SpecNotify == Init /\ [][NextNotify]_vars

\* The service UUID of the bridge whose state the model follows.
BridgeUuid == 1

\* The application has been handed the bridge of BridgeUuid.
Held == rfcomm_sockets[BridgeUuid] # NoBridge

\* An application that asks a device for sockets, and connects and closes
\* the one it was handed for BridgeUuid.
NextCache ==
    \/ get_rfcomm_socket
    \/ Held /\ Connect
    \/ Held /\ Close
    \/ Held /\ Reader
    \/ Held /\ remote_disconnect

SpecCache == Init /\ [][NextCache]_vars

\* An application that connects, reads without a timeout, flushes and
\* closes.
NextQueue ==
    \/ Connect
    \/ Read
    \/ flush_call
    \/ Close
    \/ Reader
    \/ remote_disconnect

SpecQueue == Init /\ [][NextQueue]_vars

\* An application that connects and drops the bridge without closing it.
NextDrop ==
    \/ Connect
    \/ drop_call
    \/ close_flush
    \/ close_foreign
    \/ close_join
    \/ Reader
    \/ remote_disconnect

SpecDrop == Init /\ [][NextDrop]_vars

(***************************************************************************)
(* The claims about write().                                               *)
(***************************************************************************)
\* A write() of a non-empty payload has returned.
WriteDone == pc = "idle" /\ op = "write" /\ buf # <<>>

\* C1: a write(S) of a non-empty S that returns Ok has made exactly one foreign
\* write invocation, with offset 0 and length |S|, whose octets on the wire are
\* exactly the bytes of S in order, and it returns |S|; this holds when S fits
\* the scratch array and when S forces the array to be replaced.
C1_WriteHandsPayload ==
    (WriteDone /\ res.kind = "Ok") =>
        /\ Len(outCalls) = 1
        /\ outCalls[1].off = 0
        /\ outCalls[1].len = Len(buf)
        /\ Wire(outCalls[1]) = buf
        /\ res = Ok(Len(buf))

\* C1, witness: after a write that replaced the scratch array, a shorter write
\* with bytes above 127 returned Ok, the tail of the array holding older bytes.
C1_Witness ==
    /\ WriteDone
    /\ res.kind = "Ok"
    /\ Len(array_write) > ARRAY_SIZE
    /\ Len(buf) < Len(array_write)
    /\ \E i \in 1..Len(buf) : buf[i] >= 128
    /\ array_write[Len(array_write)] # 0

\* C7: when the foreign write raises, the next step of write() returns to its
\* caller: NotConnected if the socket then reports not connected, and the
\* translated exception otherwise.
C7_WriteReturnsOnException ==
    [][(pc = "w_exc" /\ pc' # pc) =>
          /\ pc' = "idle"
          /\ res' = IF sock # "connected" THEN Err("NotConnected", <<>>) ELSE jerr(wex)
      ]_vars

\* C8: the capacity of the scratch array never decreases; a write whose payload
\* is longer than the capacity replaces the array by one that holds the
\* payload, a write whose payload fits leaves the capacity as it is, and a
\* write that returned Ok has a scratch array at least as long as its payload.
C8_CapacityNeverShrinks ==
    /\ [][/\ Len(array_write') >= Len(array_write)
          /\ (pc = "idle" /\ pc' = "w_call") =>
                IF Len(array_write) < buflen'
                THEN Len(array_write') >= buflen' /\ Len(array_write') > Len(array_write)
                ELSE Len(array_write') = Len(array_write)
         ]_vars
    /\ []((WriteDone /\ res.kind = "Ok") => Len(array_write) >= buflen)

\* C8, witness: a write that fits returned Ok on a scratch array that an
\* earlier, longer write had grown beyond its initial capacity.
C8_Witness ==
    /\ WriteDone
    /\ res.kind = "Ok"
    /\ Len(array_write) > ARRAY_SIZE
    /\ buflen < ARRAY_SIZE

(***************************************************************************)
(* The claims about read().                                                *)
(***************************************************************************)
\* The bytes the foreign input stream has delivered to the reader thread.
Delivered == [i \in 1..nDelivered |-> PeerByte(i)]

IsPrefix(s, t) == Len(s) <= Len(t) /\ s = SubSeq(t, 1, Len(s))

\* A read() on a non-empty buffer has returned.
ReadDone == pc = "idle" /\ op = "read" /\ buflen > 0

\* The step by which read() returns from its connectedness query having
\* copied nothing, the query not having raised.
ReadReturnsEmptyHanded ==
    pc = "r_check" /\ pc' = "idle" /\ buf = <<>> /\ raised' = {}

\* C2: the bytes returned by the successive Ok results of read(), concatenated,
\* are a prefix of the bytes delivered by the foreign input stream.
C2_ReadsArePrefixOfDelivered == IsPrefix(got, Delivered)

\* C3: a read() that has copied at least one byte into the caller's buffer
\* returns Ok(n) with n >= 1, never an error.
C3_CopiedBytesNeverError ==
    (ReadDone /\ Len(buf) >= 1) => (res.kind = "Ok" /\ res.val >= 1)

\* C4: a read() on a non-empty buffer that returns while the socket is still
\* connected, having found the queue empty on every pass, returns TimedOut
\* (not NotConnected), and only once more than the configured timeout has
\* passed since it was called.
C4_ConnectedEmptyTimesOut ==
    [][(ReadReturnsEmptyHanded /\ sock = "connected") =>
          /\ res' = Err("TimedOut", <<>>)
          /\ now > t_call + read_timeout
      ]_vars

\* C4, witness: a read() with a positive timeout has returned TimedOut on a
\* connected socket whose reader thread is blocked in the foreign read.
C4_Witness ==
    /\ ReadDone
    /\ res = Err("TimedOut", <<>>)
    /\ sock = "connected"
    /\ read_timeout > 0
    /\ now > read_timeout
    /\ rpc = "read"

\* C5: a read() on a non-empty buffer that finds the socket disconnected,
\* having copied nothing from the queue, returns NotConnected, whatever the
\* configured timeout.
C5_DisconnectedEmptyNotConnected ==
    [][(ReadReturnsEmptyHanded /\ sock # "connected") =>
          res' = Err("NotConnected", <<>>)
      ]_vars

\* C5, witness: with timeout zero and an empty queue, a read() on a socket the
\* peer has disconnected returned NotConnected.
C5_Witness ==
    /\ ReadDone
    /\ res = Err("NotConnected", <<>>)
    /\ read_timeout = 0
    /\ sock = "disconnected"
    /\ buf_read = <<>>
    /\ thread_read = "Some"

\* The application observes a new call.
NewCall == pc = "idle" /\ <<op, buf, buflen, res, calls, raised>>' # <<op, buf, buflen, res, calls, raised>>

\* C6: a read() with an empty buffer returns Ok(0) in the step that calls it,
\* whatever the state of the bridge: no sleep (the clock has not moved), no
\* lock taken, no foreign call, the queue and the socket untouched.
C6_EmptyBufferReturnsZero ==
    [][(NewCall /\ op' = "read" /\ buflen' = 0) =>
          /\ pc' = "idle"
          /\ res' = Ok(0)
          /\ calls' = {}
          /\ javaLock' = javaLock
          /\ now' = now
          /\ buf_read' = buf_read
          /\ got' = got
          /\ sock' = sock
      ]_vars

\* C6, witness: read() with an empty buffer returned Ok(0) on a disconnected
\* socket whose queue holds bytes.
C6_Witness ==
    /\ pc = "idle"
    /\ op = "read"
    /\ buflen = 0
    /\ res = Ok(0)
    /\ sock = "disconnected"
    /\ buf_read # <<>>

(***************************************************************************)
(* The claims about close().                                               *)
(***************************************************************************)
\* No reader thread is left running and unjoined: the join handle has been
\* taken and the thread, if one was ever spawned, has ended.
ReaderJoined == thread_read = "None" /\ rpc \in {"none", "done"}

\* A close() that got as far as the foreign close has returned.
CloseDone == pc = "idle" /\ op = "close" /\ "close" \in calls

\* C9: close() is idempotent. A close() on a connected bridge whose foreign
\* close does not raise returns Ok, and the reader thread has been joined when
\* it returns; a close() called right after a close() that returned Ok on a
\* connected bridge returns in the step that calls it, having made no foreign
\* call but the connectedness query (neither flush nor close), and returns Ok
\* unless that query itself raised.
C9_CloseIdempotent ==
    /\ []((CloseDone /\ "close" \notin raised) => (res = Ok(0) /\ ReaderJoined))
    /\ [][(CloseDone /\ res = Ok(0) /\ NewCall /\ op' = "close") =>
             /\ pc' = "idle"
             /\ calls' = {"isConnected"}
             /\ (raised' = {} => res' = Ok(0))
             /\ sock' = sock
             /\ ReaderJoined'
         ]_vars

\* C9, witness: a close() that found the socket closed and made no call but
\* the connectedness query returned Ok, the reader thread of the connection
\* having been joined by an earlier close().
C9_Witness ==
    /\ pc = "idle"
    /\ op = "close"
    /\ res = Ok(0)
    /\ calls = {"isConnected"}
    /\ sock = "closed"
    /\ thread_read = "None"
    /\ rpc = "done"

\* C10: whenever close() returns after having invoked the foreign close,
\* whether that call raised or not, the reader thread has been joined.
C10_CloseJoinsEvenIfCloseRaises == CloseDone => ReaderJoined

(***************************************************************************)
(* The claims about drop and connect().                                    *)
(***************************************************************************)
\* C11: when the drop of a bridge that was connected and never closed
\* completes, the foreign close has been invoked and the reader thread has
\* been joined, as by close().
C11_DropClosesAndJoins ==
    (pc = "dropped" /\ "flush" \in calls) => ("close" \in calls /\ ReaderJoined)

\* C12: a connect() on a bridge whose foreign socket reports connected returns
\* Ok in the step that calls it, having made no foreign call but the
\* connectedness query, with the join handle, the reader thread and the socket
\* as they were: however often it is repeated, the reader thread stays the one
\* the first successful connect() spawned.
C12_ConnectIsNoOpWhenConnected ==
    [][(NewCall /\ op' = "connect" /\ sock = "connected" /\ raised' = {}) =>
          /\ pc' = "idle"
          /\ res' = Ok(0)
          /\ calls' = {"isConnected"}
          /\ thread_read' = thread_read
          /\ rpc' = rpc
          /\ sock' = sock
      ]_vars

\* C12, witness: a connect() repeated on a connected bridge returned Ok having
\* only queried the connectedness, the reader thread of the first connect at
\* work in its loop.
C12_Witness ==
    /\ pc = "idle"
    /\ op = "connect"
    /\ res = Ok(0)
    /\ calls = {"isConnected"}
    /\ sock = "connected"
    /\ thread_read = "Some"
    /\ rpc = "read"

\* connect() returns from its foreign connect.
ConnectReturns == pc = "c_connect" /\ pc' = "idle"

\* That step spawns a reader thread.
Spawns == thread_read' = "Some" /\ rpc' = "start" /\ <<thread_read, rpc>> # <<"Some", "start">>

\* C13: a connect() whose foreign connect raises returns the translation of
\* the exception, and one whose foreign connect returns while the socket then
\* reports not connected returns NotConnected; either way the socket is left
\* not connected and no reader thread is spawned. A reader thread is spawned
\* exactly when connectedness was confirmed after the foreign connect, and
\* exactly then connect() returns Ok.
C13_FailedConnectSpawnsNothing ==
    [][ConnectReturns =>
          /\ "connect" \in raised' =>
                /\ res' \in {jerr(e) : e \in SocketErrors \cup {SecurityEx}}
                /\ sock' # "connected"
          /\ (raised' = {} /\ sock' # "connected") => res' = Err("NotConnected", <<>>)
          /\ Spawns <=> (raised' = {} /\ sock' = "connected")
          /\ Spawns <=> res' = Ok(0)
          /\ ~Spawns => UNCHANGED <<thread_read, rpc>>
      ]_vars

\* C13, witness: a connect() whose foreign connect returned without raising
\* came back NotConnected, with no join handle and no reader thread.
C13_Witness ==
    /\ pc = "idle"
    /\ op = "connect"
    /\ res = Err("NotConnected", <<>>)
    /\ calls = {"connect", "isConnected"}
    /\ raised = {}
    /\ sock # "connected"
    /\ thread_read = "None"
    /\ rpc = "none"

(***************************************************************************)
(* The claims about the Java handles.                                      *)
(***************************************************************************)
\* The application thread is inside use_env of the shared handle.
AppInEnv == pc \in {"c_connect", "w_call", "w_exc", "a_new", "deadlocked"}

\* The reader thread is inside the use_env that holds its whole loop.
ReaderInEnv == rpc \in {"read", "retry", "append", "r_close", "r_isconn", "cb_invoke", "cb_restore"}

\* The threads inside use_env of handle h.
InEnv(h) ==
    {t \in {"app"} : h = "shared" /\ AppInEnv}
    \cup {t \in {"reader"} : h = ReaderHandle /\ ReaderInEnv}

\* C14: at most one thread at a time is inside use_env of one handle, and the
\* application thread is inside use_env of the shared handle only while it
\* holds the lock of that handle.
C14_OneThreadPerHandle ==
    /\ \A h \in DOMAIN attached : Cardinality(InEnv(h)) <= 1
    /\ AppInEnv => javaLock = "app"

\* C14, witness: the application thread is inside use_env of the shared handle,
\* about to make the foreign write, while the reader thread is inside the
\* foreign read.
C14_Witness == pc = "w_call" /\ javaLock = "app" /\ rpc = "read"

\* C15: a thread inside use_env of a handle is the thread that handle's
\* attachment belongs to.
C15_AttachmentStaysOnItsThread ==
    \A h \in DOMAIN attached : \A t \in InEnv(h) : attached[h] = t

\* C15, witness: the reader thread is appending what it read through its own
\* handle while the application thread is inside a foreign write through the
\* shared one.
C15_Witness ==
    /\ rpc = "append"
    /\ attached[ReaderHandle] = "reader"
    /\ pc = "w_call"
    /\ attached.shared = "app"

\* The application thread is in a blocking wait: asleep in read(), joining the
\* reader thread in close(), or in the blocking foreign connect.
BlockingWait == pc \in {"r_sleep", "x_join", "c_connect"}

\* C16: the application thread never holds the lock of the shared handle while
\* it is in a blocking wait.
C16_NoLockAcrossBlockingWait == BlockingWait => javaLock = "free"

(***************************************************************************)
(* The claims about the exception translator.                              *)
(***************************************************************************)
\* C17: the translator gives every caught error one of the kinds
\* PermissionDenied, InvalidInput and Other, never NotConnected or TimedOut;
\* for an exception whose class name and message were retrieved the kind is
\* PermissionDenied if the class name contains "SecurityException", else
\* InvalidInput if it contains "IllegalArgumentException", else Other with the
\* text "<class>: <message>"; and the pending exception has been cleared
\* whenever the class name and the message have been retrieved.
C17_TranslatorClassifies ==
    /\ tr.stage \in {"described", "done"} => ~tr.pending
    /\ tr.stage = "done" =>
          /\ tr.out.kind \in {"PermissionDenied", "InvalidInput", "Other"}
          /\ tr.described =>
                IF Contains(tr.err.cls, "SecurityException")
                THEN tr.out.kind = "PermissionDenied"
                ELSE IF Contains(tr.err.cls, "IllegalArgumentException")
                THEN tr.out.kind = "InvalidInput"
                ELSE tr.out = Err("Other", tr.err.cls \o <<": ">> \o tr.err.msg)

\* C17, witness: an exception whose class name contains both
\* "IllegalArgumentException" and, after it, "SecurityException" has been
\* translated to PermissionDenied.
C17_Witness ==
    /\ tr.stage = "done"
    /\ tr.described
    /\ tr.err.cls = <<"IllegalArgumentException", "SecurityException">>
    /\ tr.out.kind = "PermissionDenied"

(***************************************************************************)
(* The claims about the propagation of foreign exceptions.                 *)
(***************************************************************************)
\* A result that carries an error.
IsError(r) == r.kind \notin {"Ok", "none"}

\* C18: once a foreign call of a running operation has raised, the next step
\* of the operation returns an error to its caller, and an operation that has
\* returned after a foreign call of its own raised has returned an error; in
\* the read loop an exception that is not the clean-disconnect signal ends the
\* reader thread with an error, the failing read not being made again.
C18_ExceptionsReachTheCaller ==
    /\ [][(raised # {} /\ pc # "idle" /\ pc' # pc) => (pc' = "idle" /\ IsError(res'))]_vars
    /\ []((pc = "idle" /\ raised # {}) => IsError(res))
    /\ [][(rpc = "r_isconn" /\ rpc' # rpc) => (rpc' = "done" /\ IsError(rres'))]_vars

\* C19: a flush() whose foreign flush raises returns NotConnected if the
\* socket is not connected, and the translated exception otherwise.
C19_FlushHandlesExceptionsAsWrite ==
    [][(NewCall /\ op' = "flush" /\ "flush" \in raised') =>
          IF sock # "connected"
          THEN res' = Err("NotConnected", <<>>)
          ELSE res' \in {jerr(e) : e \in ForeignErrors}
      ]_vars

(***************************************************************************)
(* The claims about the device's cache.                                    *)
(***************************************************************************)
\* C20: a request that the device answers with a bridge is answered with a
\* bridge built from a foreign socket of the requested UUID, security mode
\* and kind, so that requests for one UUID that differ in security mode or in
\* kind are answered with different bridges.
C20_BridgePerUuidModeAndKind ==
    dres.ok =>
        /\ dres.bridge.uuid = dres.uuid
        /\ dres.bridge.is_secure = dres.is_secure
        /\ dres.bridge.kind = dres.kind

\* C21: a get_rfcomm_socket request, in the security mode of the first one,
\* for a UUID whose bridge has been closed or has lost its connection is
\* answered with a bridge built on a newly derived foreign socket object,
\* not with the one handed out before.
C21_NeverHandsOutClosedBridge ==
    [][ ( /\ dres' # dres
          /\ dres'.ok
          /\ dres'.kind = "rfcomm"
          /\ dres'.uuid = BridgeUuid
          /\ Held
          /\ dres'.is_secure = rfcomm_sockets[BridgeUuid].is_secure
          /\ sock \in {"closed", "disconnected"} )
        => dres'.bridge.obj # rfcomm_sockets[BridgeUuid].obj
      ]_vars

\* C22: the cache only grows and only on success: a request never removes or
\* replaces an entry, the cache changes only by the entry of the requested
\* UUID, which is then the bridge the request is answered with, and a request
\* answered with an error leaves the cache as it was.
C22_CacheGrowsOnlyOnSuccess ==
    [][ /\ \A u \in Uuids :
             rfcomm_sockets[u] # NoBridge => rfcomm_sockets'[u] = rfcomm_sockets[u]
        /\ rfcomm_sockets' # rfcomm_sockets =>
             /\ dres'.ok
             /\ rfcomm_sockets'[dres'.uuid] = dres'.bridge
             /\ dres'.bridge # NoBridge
             /\ \A u \in Uuids \ {dres'.uuid} : rfcomm_sockets'[u] = rfcomm_sockets[u]
        /\ ~dres'.ok => rfcomm_sockets' = rfcomm_sockets
      ]_vars

\* A request has failed with bridges in the cache, one of them under the
\* UUID of a request answered before.
C22_Witness ==
    /\ ~dres.ok
    /\ dres.kind # "none"
    /\ rfcomm_sockets[dres.uuid] = NoBridge
    /\ \E u \in Uuids : rfcomm_sockets[u] # NoBridge

(***************************************************************************)
(* The claims about the read loop.                                         *)
(***************************************************************************)
\* The step by which the read loop gives the disconnect notification and
\* ends: with a callback in the slot the callback is taken out to be invoked
\* with None, and without one the thread ends with Ok at once.
EndsWithNone ==
    IF read_callback = "None"
    THEN rpc' = "done" /\ rres' = Ok(0)
    ELSE rpc' = "cb_invoke" /\ callback' = read_callback /\ val' = None

\* The reader thread is handling an exception of the foreign read.
Handling == rpc \in {"r_close", "r_isconn"}

\* C23: an exception of the foreign read is handled as a clean closure exactly
\* when its message contains "closed" in any case of letters; the clean
\* closure closes the foreign socket unless the close fails, gives the
\* notification with None and ends the thread with Ok, whatever the state of
\* the socket and without the connectedness query; the invocation with None
\* is followed by the end of the thread with Ok.
C23_ClosedExceptionIsCleanClosure ==
    /\ [](Handling =>
            (rpc = "r_close" <=> \E i \in 1..Len(rex.msg) :
                                   rex.msg[i] \in {"closed", "Closed", "CLOSED"}))
    /\ [][(rpc = "r_close" /\ rpc' # rpc) =>
            (EndsWithNone /\ sock' \in {sock, "closed"})]_vars
    /\ [][(rpc \in {"cb_invoke", "cb_restore"} /\ ~val.some /\ rpc' # rpc) =>
            \/ rpc = "cb_invoke" /\ rpc' = "cb_restore" /\ UNCHANGED <<callback, val>>
            \/ rpc = "cb_restore" /\ rpc' = "done" /\ rres' = Ok(0)]_vars

\* The callback has been invoked with None by the clean closure of a
\* connected socket, which closed it.
C23_Witness ==
    /\ rpc = "cb_restore"
    /\ val = None
    /\ sock = "closed"

\* C24: after an exception of the foreign read whose message does not contain
\* "closed" the reader thread asks the socket whether it is connected; it
\* gives the notification with None and ends if the socket is not, and else
\* goes on with the next foreign read, the queue and the slot untouched.
C24_OtherExceptionAsksTheSocket ==
    [][(rpc = "r_isconn" /\ rpc' # rpc) =>
          IF sock # "connected"
          THEN EndsWithNone
          ELSE rpc' = "read" /\ UNCHANGED <<buf_read, read_callback, callback, val>>
      ]_vars

\* The n bytes a foreign read that returned n has taken from the stream.
LastRead(n) == SubSeq(Delivered, nDelivered - n + 1, nDelivered)

\* C25: after a foreign read that returned a positive length n the next step
\* of the reader thread appends exactly the n bytes read to the tail of the
\* queue and, with a callback in the slot, takes it out to invoke it with
\* Some(n); while an invocation with Some(n) is in flight the queue loses
\* bytes only to read(), at its head.
C25_AppendsThenNotifies ==
    /\ [][(rpc = "append" /\ rpc' # rpc) =>
            /\ read_len.len > 0
            /\ buf_read' = buf_read \o LastRead(read_len.len)
            /\ IF read_callback = "None"
               THEN rpc' = "read"
               ELSE rpc' = "cb_invoke" /\ callback' = read_callback
                    /\ val' = Some(read_len.len)]_vars
    /\ [][(rpc \in {"cb_invoke", "cb_restore"} /\ val.some /\ buf_read' # buf_read) =>
            (pc = "r_drain" /\ \E k \in 1..Len(buf_read) :
                                  buf_read' = SubSeq(buf_read, k + 1, Len(buf_read)))]_vars

\* C26: a foreign read that returns a non-positive length is followed by the
\* next foreign read and by nothing else: the reader thread neither ends nor
\* touches the queue or the callback slot, nor takes a callback out.
C26_NonPositiveReadIsRetried ==
    /\ [](rpc = "retry" <=> (read_len.known /\ read_len.len <= 0))
    /\ [][(rpc = "read" /\ read_len'.known /\ read_len'.len <= 0) =>
            (rpc' = "retry" /\ UNCHANGED <<buf_read, read_callback, callback, val, rres>>)]_vars
    /\ [][(rpc = "retry" /\ rpc' # rpc) =>
            (rpc' = "read" /\ UNCHANGED <<buf_read, read_callback, callback, val, rres>>)]_vars

\* The foreign read returned the end-of-stream mark on a socket that is not
\* connected any more, and the reader thread is about to read again.
C26_Witness ==
    /\ rpc = "retry"
    /\ read_len = Length(-1)
    /\ sock # "connected"

\* C27: the queue gains bytes only by the append of the read loop, which
\* puts the bytes of its last foreign read at the tail while the reader
\* thread is in no callback handoff and the shared lock stays as it is; it
\* loses bytes only to the drain of read(), which takes them from the head
\* into the caller's buffer; no step of connect, write, flush or close
\* changes it.
C27_ReaderIsSoleWriter ==
    [][buf_read' # buf_read =>
          \/ /\ rpc = "append"
             /\ Len(buf_read') > Len(buf_read)
             /\ buf_read' = buf_read \o LastRead(Len(buf_read') - Len(buf_read))
             /\ callback = "None"
             /\ UNCHANGED <<javaLock, pc, buf>>
          \/ /\ pc = "r_drain" /\ op = "read"
             /\ \E k \in 1..Len(buf_read) :
                  /\ buf_read' = SubSeq(buf_read, k + 1, Len(buf_read))
                  /\ buf' = buf \o SubSeq(buf_read, 1, k)
             /\ UNCHANGED rpc
      ]_vars

\* read() has taken bytes from the head of the queue, the read loop has put
\* bytes at its tail, and a close has run with bytes in the queue.
C27_Witness ==
    /\ got # <<>>
    /\ buf_read # <<>>
    /\ op = "close"
    /\ pc = "idle"

\* C28: once close() has made the foreign close on a connected bridge and
\* waits in the join, the reader thread ends and the join returns, whatever
\* the foreign read then does.
C28_ReaderExitsAfterClose ==
    /\ (pc = "x_join" /\ thread_read = "Some") ~> (rpc = "done")
    /\ (pc = "x_join") ~> (pc = "idle")

\* The reader thread has been spawned and has not ended.
ReaderAlive == rpc \notin {"none", "done"}

\* C29: the reader thread works through its own handle, attached to the
\* reader thread, the shared handle staying attached to the application
\* thread; and while the application thread holds the lock of the shared
\* handle a reader thread that is alive can take its next step.
C29_ReaderNeverWaitsForSharedLock ==
    /\ attached.shared = "app"
    /\ ReaderInEnv => attached.own = "reader"
    /\ (ReaderAlive /\ javaLock = "app") => ENABLED Reader

\* close() waits in the join with the lock of the shared handle held, and
\* the reader thread is inside its foreign read.
C29_Witness ==
    /\ pc = "x_join"
    /\ javaLock = "app"
    /\ rpc = "read"

\* C30: to notify, the reader thread takes the callback out of the slot and
\* leaves the slot empty; the invocation changes neither the slot nor the
\* callback taken; after it the callback taken is put back only into a slot
\* that is still empty, so that a callback registered during the invocation
\* is the one in the slot afterwards.
C30_RestoreOnlyIntoEmptySlot ==
    /\ [][(rpc # "cb_invoke" /\ rpc' = "cb_invoke") =>
            (read_callback # "None" /\ callback' = read_callback
             /\ read_callback' = "None")]_vars
    /\ [][(rpc = "cb_invoke" /\ rpc' # rpc) =>
            (rpc' = "cb_restore" /\ UNCHANGED <<read_callback, callback, val>>)]_vars
    /\ [][(rpc = "cb_restore" /\ rpc' # rpc) =>
            IF read_callback = "None"
            THEN read_callback' = callback
            ELSE read_callback' = read_callback]_vars
    /\ [](rpc \in {"cb_invoke", "cb_restore"} => callback \in Callbacks)

\* A callback has been invoked and, while it ran, another one was registered
\* in the slot; the reader thread is about to put the old one back.
C30_Witness ==
    /\ rpc = "cb_restore"
    /\ read_callback \in Callbacks \ {callback}

\* C31, as stated: when a callback was set in the slot while a callback was
\* being invoked, the slot does not hold the newly set callback once the
\* reader thread has done its restore.
C31_NewCallbackIsDropped ==
    [][(rpc = "cb_restore" /\ rpc' # rpc /\ read_callback # "None") =>
          read_callback' # read_callback]_vars

\* C31, amended: when a callback was set in the slot while a callback was
\* being invoked, the restore leaves the newly set callback in the slot, and
\* it is the callback that was being invoked that is dropped: the reader
\* thread keeps it no longer and the slot does not hold it.
C31_NewCallbackIsKept ==
    [][(rpc = "cb_restore" /\ rpc' # rpc /\ read_callback # "None") =>
          /\ read_callback' = read_callback
          /\ callback' = "None"
          /\ (read_callback # callback => read_callback' # callback)]_vars

\* A callback is being invoked and a new one has been set in the slot
\* meanwhile.
C31_Witness ==
    /\ rpc = "cb_invoke"
    /\ read_callback \in Callbacks \ {callback}

(***************************************************************************)
(* More claims about read().                                               *)
(***************************************************************************)
\* A read() on a non-empty buffer returns from its loop in this step.
ReadLeavesLoop == op = "read" /\ pc \in {"r_drain", "r_check"} /\ pc' = "idle"

\* C32: a read() on a non-empty buffer returns at or before its deadline
\* (the time of the call plus the configured timeout) only with the buffer
\* full, or having found the socket disconnected, or because the
\* connectedness query raised; on a connected socket with the buffer not
\* full and the deadline not passed it goes to sleep, for at most one step
\* of 100 ms and never beyond the deadline, and drains again when it wakes;
\* a count smaller than the buffer is returned on a connected socket only
\* after the deadline.
C32_ReadReturnsEarlyOnlyWhenFullOrDisconnected ==
    /\ [][(ReadLeavesLoop /\ now <= t_call + read_timeout) =>
            \/ Len(buf') = buflen
            \/ pc = "r_check" /\ sock # "connected"
            \/ pc = "r_check" /\ "isConnected" \in raised']_vars
    /\ [][(pc = "r_check" /\ pc' # pc /\ sock = "connected"
             /\ "isConnected" \notin raised' /\ now <= t_call + read_timeout) =>
            /\ pc' = "r_sleep"
            /\ wake' >= now
            /\ wake' - now <= SleepStep
            /\ wake' <= t_call + read_timeout
            /\ UNCHANGED <<buf, buf_read>>]_vars
    /\ [][(pc = "r_sleep" /\ pc' # pc) => (pc' = "r_drain" /\ now >= wake)]_vars
    /\ [][(ReadLeavesLoop /\ res'.kind = "Ok" /\ res'.val < buflen
             /\ sock = "connected") =>
            now > t_call + read_timeout]_vars

\* A read() with a positive timeout has returned fewer bytes than asked for
\* on a connected socket, after its deadline.
C32_Witness ==
    /\ ReadDone
    /\ res.kind = "Ok"
    /\ res.val < buflen
    /\ sock = "connected"
    /\ read_timeout > 0
    /\ now > read_timeout

(***************************************************************************)
(* More claims about the read loop.                                        *)
(***************************************************************************)
\* C33: once the reader thread has its batch read size, the size is positive
\* and not larger than ARRAY_SIZE, whatever getMaxReceivePacketSize has
\* returned.
C33_ReadSizeIsPositive ==
    ReaderInEnv => (read_size >= 1 /\ read_size <= ARRAY_SIZE)

(* C34: no code path takes the lock of the shared platform handle while the
   calling thread already holds it, whether the foreign call made under the
   lock succeeded or raised: an operation never ends up blocked (or
   panicking) on its own guard. *)
C34_NoRelockOfSharedHandle ==
    pc \in {"deadlocked", "panicked"} => javaLock # "app"

(* C35: at most one reader thread per bridge is alive at any time: connect()
   spawns a reader thread only when no reader thread of the bridge is alive,
   also when it is called after the socket was reported disconnected and
   before the previous reader thread has exited. *)
C35_AtMostOneReaderThread ==
    [][(pc = "c_connect" /\ pc' = "idle" /\ res' = Ok(0)) => ~ReaderAlive]_vars

\* C35, witness: a connect() issued on a disconnected socket whose reader
\* thread was still alive has made its foreign connect and returned, and the
\* same reader thread is alive.
C35_Witness ==
    /\ pc = "idle"
    /\ op = "connect"
    /\ "connect" \in calls
    /\ sock = "disconnected"
    /\ ReaderAlive
    /\ thread_read = "Some"


(* C36: no received byte is lost: in every reachable state the bytes handed
   to the caller in Ok results of read(), followed by the bytes a read() in
   progress has copied so far and by the bytes still in the shared queue, are
   the bytes appended to the queue, in order, so that no step takes a byte
   away from them: read() never removes bytes from the queue and then
   returns an error. *)
Copied == IF pc \in {"r_drain", "r_check", "r_sleep"} THEN buf ELSE <<>>

Accounted == got \o Copied \o buf_read

C36_NoReceivedByteIsLost == [][IsPrefix(Accounted, Accounted')]_vars

(* C37: whenever the reader thread terminates while a callback is
   registered, it terminates out of the invocation of that callback with
   None: no path ends the thread without the disconnect notification; and
   after a None notification the thread ends at once, appending no further
   bytes and making no further invocation. *)
ReaderEnds == rpc # "done" /\ rpc' = "done"

C37_ReaderEndsWithNoneNotification ==
    [][/\ (ReaderEnds /\ rpc # "cb_restore") => read_callback = "None"
       /\ (ReaderEnds /\ rpc = "cb_restore") => val = None
       /\ (rpc = "cb_restore" /\ val = None /\ rpc' # rpc) => rpc' = "done"
       /\ rpc = "done" => /\ rpc' = "done"
                          /\ UNCHANGED <<callback, val>>
                          /\ Len(buf_read') <= Len(buf_read)
      ]_vars

(* C38: whenever read() returns NotConnected, the shared queue is empty at
   that moment: bytes the reader thread appended before the socket was
   reported disconnected are returned by that read(), never hidden behind a
   NotConnected error. *)
C38_NotConnectedOnlyWithEmptyQueue ==
    [][(ReadLeavesLoop /\ res' = Err("NotConnected", <<>>)) => buf_read' = <<>>]_vars

(* C39: the passkey-confirmation handler of the pairing agent eventually
   returns for every behaviour of the host: when the host answers Yes, No or
   Cancel, when no answer arrives within the timeout, and when the host
   drops its response sender without answering. *)
C39_ConfirmationEventuallyReturns ==
    (agent = "request_confirmation" /\ apc = "recv") ~> (apc = "returned")

(* C40: the passkey handlers map the host's responses: Waiting responses are
   skipped; the first response that is not Waiting decides, Yes giving Ok,
   No giving Rejected and Cancel giving Canceled; a return without such a
   response gives Canceled; Ok is returned only if the host sent Yes; and a
   handler that returned has sent its request and then CancelDisplayPasskey
   to the host. *)
Consumed == SubSeq(answered, 1, Len(answered) - Len(chan_rx))

C40_ResponsesAreMapped ==
    apc = "returned" =>
        /\ \A i \in 1..(Len(Consumed) - 1) : Consumed[i] = "Waiting"
        /\ IF Consumed # <<>> /\ Consumed[Len(Consumed)] # "Waiting"
           THEN /\ asdf = "Some"
                /\ ares = (CASE Consumed[Len(Consumed)] = "Yes" -> "Ok"
                             [] Consumed[Len(Consumed)] = "No" -> "Rejected"
                             [] Consumed[Len(Consumed)] = "Cancel" -> "Canceled")
           ELSE /\ ares = "Canceled"
                /\ agent = "request_confirmation" => asdf = "Elapsed"
        /\ ares = "Ok" => \E i \in 1..Len(answered) : answered[i] = "Yes"
        /\ to_host = <<Request(agent), "CancelDisplayPasskey">>

\* C40, witness: the confirmation handler skipped a Waiting response and
\* returned Rejected on the No after it, with a Yes left unread in the channel.
C40_Witness ==
    /\ apc = "returned"
    /\ agent = "request_confirmation"
    /\ answered = <<"Waiting", "No", "Yes">>
    /\ chan_rx = <<"Yes">>
    /\ ares = "Rejected"

====
